---- MODULE Spec2Model ----
(***************************************************************************)
(* Macro-Momentum-Rotation: the monthly rebalance of the platform variant  *)
(* (macro_momentum_rotation.py, class AbsoluteRelativeMomentum) and the    *)
(* one-shot script (macro_momentum_rotation_local.py, run_strategy).       *)
(*                                                                         *)
(* Representation.                                                         *)
(*  - A price column is a sequence of Rows daily closes, oldest first; 0    *)
(*    stands for a missing observation (pandas NaN), removed by dropna.    *)
(*  - A Python float is a record [k, n, d]: k = "num" is the real n/d      *)
(*    (d > 0), k = "-inf" is -np.inf, k = "nan" is np.nan.  Quantities the *)
(*    code obtains through several roundings (momentum mean, volatility,   *)
(*    weights) are kept in fixed point with denominator Scale; a single    *)
(*    simple return keeps its exact numerator and denominator.             *)
(*  - The instrument universe is the sub-list VT, BIL, VGSH of the source  *)
(*    lists, in the source's order (one instrument before the cash proxy,  *)
(*    one after it).                                                       *)
(***************************************************************************)
EXTENDS Integers, Sequences, FiniteSets, TLC

VARIABLES
    variant,       \* which of the two programs is running
    market,        \* the price panel the data provider would return now
    IsWarmingUp,   \* QCAlgorithm.IsWarmingUp
    holdings,      \* platform: target weight per instrument (fixed point)
    frame,         \* platform: locals and order calls of the Rebalance just run
    script         \* standalone: locals and output of the run_strategy just run

vars == <<variant, market, IsWarmingUp, holdings, frame, script>>

----------------------------------------------------------------------------
(* Fixed-point unit: Scale stands for the float 1.0. *)
Scale == 10000

(* Bounds of the enumerated price panels. *)
Rows == 300
ShortLen == 50
MidLen == 200
BasePrice == 100

----------------------------------------------------------------------------
(* Configuration of the platform variant (Initialize). *)
bil == "BIL"
assets == <<"VT", "BIL", "VGSH">>
momentum_lookbacks == <<21, 63, 126, 189, 252>>
sma_period == 168
vol_lookback == 252
target_vol == 1200
max_weight == 10000

(* Configuration of the standalone script. *)
CASH_PROXY == "BIL"
ALL_SYMBOLS == <<"VT", "BIL", "VGSH">>
MOMENTUM_LOOKBACKS == <<21, 63, 126, 189, 252>>
SMA_PERIOD == 168
VOL_LOOKBACK == 252
TARGET_VOL == 1200
MAX_WEIGHT == 10000

----------------------------------------------------------------------------
(* Floats. *)
Num(x) == [k |-> "num", n |-> x, d |-> Scale]
Ratio(a, b) == [k |-> "num", n |-> a, d |-> b]
NegInf == [k |-> "-inf", n |-> 0, d |-> 1]
NaN == [k |-> "nan", n |-> 0, d |-> 1]

(* a > b on floats: false when either is nan, -inf is below every number. *)
Gt(a, b) ==
    IF a.k = "nan" \/ b.k = "nan" THEN FALSE
    ELSE IF a.k = "-inf" THEN FALSE
    ELSE IF b.k = "-inf" THEN TRUE
    ELSE a.n * b.d > b.n * a.d

Min(a, b) == IF b < a THEN b ELSE a

RECURSIVE SeqMax(_)
SeqMax(s) ==
    IF Len(s) = 1 THEN s[1]
    ELSE LET m == SeqMax(Tail(s)) IN IF s[1] >= m THEN s[1] ELSE m

Range(s) == {s[i] : i \in 1..Len(s)}

(* Largest r with r * r <= x, by bisection on lo..hi. *)
RECURSIVE Bisect(_, _, _)
Bisect(x, lo, hi) ==
    IF lo >= hi THEN lo
    ELSE LET mid == (lo + hi + 1) \div 2
         IN IF mid * mid <= x THEN Bisect(x, mid, hi) ELSE Bisect(x, lo, mid - 1)

ISqrt(x) == Bisect(x, 0, 40000)

----------------------------------------------------------------------------
(* pandas helpers. *)
dropna(col) == SelectSeq(col, LAMBDA p : p # 0)

(* series.iloc[-k] *)
iloc(px, k) == px[Len(px) - k + 1]

(* series.tail(n) *)
tail(px, n) == IF Len(px) <= n THEN px ELSE SubSeq(px, Len(px) - n + 1, Len(px))

(* Sum of px[lo..hi], halving the range. *)
RECURSIVE SumRange(_, _, _)
SumRange(px, lo, hi) ==
    IF lo > hi THEN 0
    ELSE IF lo = hi THEN px[lo]
    ELSE LET mid == (lo + hi) \div 2
         IN SumRange(px, lo, mid) + SumRange(px, mid + 1, hi)

Sum(px) == SumRange(px, 1, Len(px))

(* Sum of (rets[j] - mean)^2 for j in lo..hi. *)
RECURSIVE SumSqDev(_, _, _, _)
SumSqDev(rets, mean, lo, hi) ==
    IF lo > hi THEN 0
    ELSE IF lo = hi THEN (rets[lo] - mean) * (rets[lo] - mean)
    ELSE LET mid == (lo + hi) \div 2
         IN SumSqDev(rets, mean, lo, mid) + SumSqDev(rets, mean, mid + 1, hi)

(* np.log(a / b) in fixed point, by ln x ~ 2 (x - 1) / (x + 1); exactly 0 iff a = b. *)
LogRet(a, b) == (2 * Scale * (a - b)) \div (a + b)

(* np.log(px / px.shift(1)).dropna(): one log return per consecutive pair. *)
LogReturns(px) ==
    IF Len(px) < 2 THEN <<>>
    ELSE [i \in 1..(Len(px) - 1) |-> LogRet(px[i + 1], px[i])]

(* rets.std() * np.sqrt(252): sample standard deviation (ddof = 1), annualised. *)
AnnualizedStd(rets) ==
    IF Len(rets) < 2 THEN NaN
    ELSE LET n == Len(rets)
             mean == Sum(rets) \div n
             var == SumSqDev(rets, mean, 1, n) \div (n - 1)
         IN Num(ISqrt(var * 252))

(* Mean over the lookbacks lbs of px.iloc[-1] / px.iloc[-(lb + 1)] - 1, fixed point. *)
RECURSIVE SumReturns(_, _, _)
SumReturns(px, lbs, i) ==
    IF i = 0 THEN 0
    ELSE ((iloc(px, 1) * Scale) \div iloc(px, lbs[i] + 1)) - Scale
         + SumReturns(px, lbs, i - 1)

MeanReturn(px, lbs) == SumReturns(px, lbs, Len(lbs)) \div Len(lbs)

----------------------------------------------------------------------------
(* Platform variant. *)
max_lookback == SeqMax(momentum_lookbacks)

(* self.history(self.assets, max_lookback + 1, ...)["close"].unstack(0): the *)
(* last max_lookback + 1 rows; an instrument with no bar has no column.      *)
history(mkt) ==
    LET win(s) == tail(mkt[s], max_lookback + 1)
        cols == {s \in Range(assets) : dropna(win(s)) # <<>>}
    IN [s \in cols |-> win(s)]

Momentum(symbol, closes) ==
    IF symbol \notin DOMAIN closes THEN NegInf
    ELSE LET px == dropna(closes[symbol])
             max_lb == SeqMax(momentum_lookbacks)
         IN IF Len(px) < max_lb + 1 THEN NegInf
            ELSE Num(MeanReturn(px, momentum_lookbacks))

(* PassesSmaGate with the last comparison written >= instead of >. *)
PassesSmaGate_NonStrict(symbol, closes) ==
    IF symbol = bil THEN TRUE
    ELSE IF symbol \notin DOMAIN closes THEN FALSE
    ELSE LET px == dropna(closes[symbol])
         IN IF Len(px) < sma_period THEN FALSE
            ELSE iloc(px, 1) * sma_period >= Sum(tail(px, sma_period))

PassesSmaGate(symbol, closes) ==
    IF symbol = bil THEN TRUE
    ELSE IF symbol \notin DOMAIN closes THEN FALSE
    ELSE LET px == dropna(closes[symbol])
         IN IF Len(px) < sma_period THEN FALSE
            ELSE LET sma == Ratio(Sum(tail(px, sma_period)), sma_period)
                 IN Gt(Ratio(iloc(px, 1), 1), sma)

RealizedVol(symbol, closes) ==
    IF symbol \notin DOMAIN closes THEN NaN
    ELSE LET px == dropna(closes[symbol])
         IN IF Len(px) < vol_lookback + 1 THEN NaN
            ELSE LET rets == LogReturns(px)
                 IN IF Len(rets) < vol_lookback THEN NaN
                    ELSE AnnualizedStd(tail(rets, vol_lookback))

AbsoluteReturn6M(symbol, closes) ==
    IF symbol \notin DOMAIN closes THEN NegInf
    ELSE LET px == dropna(closes[symbol])
         IN IF Len(px) < 126 + 1 THEN NegInf
            ELSE Ratio(iloc(px, 1) - iloc(px, 127), iloc(px, 127))

(* The eligibility loop of Rebalance, in universe order. *)
Eligible(closes) ==
    LET bil_ret_12m == AbsoluteReturn6M(bil, closes)
        keep(s) ==
            /\ s \in DOMAIN closes
            /\ PassesSmaGate(s, closes)
            /\ \/ s = bil
               \/ Gt(AbsoluteReturn6M(s, closes), bil_ret_12m)
    IN SelectSeq(assets, keep)

(* max(scores, key=scores.get): the first key, in insertion order, that no *)
(* later key beats strictly.                                               *)
RECURSIVE ArgMaxFrom(_, _, _, _)
ArgMaxFrom(keys, scores, best, i) ==
    IF i > Len(keys) THEN best
    ELSE IF Gt(scores[keys[i]], scores[best])
         THEN ArgMaxFrom(keys, scores, keys[i], i + 1)
         ELSE ArgMaxFrom(keys, scores, best, i + 1)

(* A selection that takes the first key without comparing scores. *)
ArgMax_First(keys, scores) == keys[1]

ArgMax(keys, scores) == ArgMaxFrom(keys, scores, keys[1], 2)

(* The vol-targeting branch without the min(max_weight, .) cap. *)
TargetWeight_NoCap(winner, vol) ==
    IF winner = bil THEN Scale
    ELSE IF (vol.k = "num" /\ vol.n = 0) \/ vol.k = "nan" THEN 0
    ELSE (target_vol * Scale) \div vol.n

(* The vol-targeting branch testing only `not vol`: min(max_weight, nan) is *)
(* max_weight in Python.                                                    *)
TargetWeight_NoNanCheck(winner, vol) ==
    IF winner = bil THEN Scale
    ELSE IF vol.k = "num" /\ vol.n = 0 THEN 0
    ELSE IF vol.k = "nan" THEN max_weight
    ELSE Min(max_weight, (target_vol * Scale) \div vol.n)

(* The vol-targeting branch of Rebalance. *)
TargetWeight(winner, vol) ==
    IF winner = bil THEN Scale
    ELSE IF (vol.k = "num" /\ vol.n = 0) \/ vol.k = "nan" THEN 0
    ELSE Min(max_weight, (target_vol * Scale) \div vol.n)

(* cash_weight = 1.0 - weight *)
CashWeight(weight) == Scale - weight

(* Brokerage calls. *)
(* A Liquidate that closes nothing. *)
Liquidate_Noop(h) == h

Liquidate(h) == [s \in DOMAIN h |-> 0]

SetHoldings(h, symbol, w) == [h EXCEPT ![symbol] = w]

LiquidateCall(h) ==
    [op |-> "Liquidate", symbol |-> "", weight |-> 0,
     closed |-> {s \in DOMAIN h : h[s] # 0}]

SetHoldingsCall(symbol, w) ==
    [op |-> "SetHoldings", symbol |-> symbol, weight |-> w, closed |-> {}]

Idle ==
    [path |-> "idle", eligible |-> <<>>, scores |-> <<>>, winner |-> "",
     vol |-> NaN, weight |-> 0, cash_weight |-> 0, orders |-> <<>>]

(* The early returns without the `if history.empty` test. *)
SkipPath_NoEmptyCheck(warming, closes) ==
    IF warming THEN "warming_up" ELSE "run"

(* The early returns of Rebalance. *)
SkipPath(warming, closes) ==
    IF warming THEN "warming_up"
    ELSE IF DOMAIN closes = {} THEN "empty_history"
    ELSE "run"

(* One invocation of Rebalance: the locals it ends with, the order calls it *)
(* issued and the holdings it leaves.                                       *)
RebalanceRun(warming, mkt, h) ==
    LET closes == IF warming THEN <<>> ELSE history(mkt)
        skip == SkipPath(warming, closes)
    IN IF skip # "run"
       THEN [frame |-> [Idle EXCEPT !.path = skip], holdings |-> h]
       ELSE
       LET eligible == Eligible(closes)
       IN IF eligible = <<>>
          THEN [frame |-> [Idle EXCEPT !.path = "no_eligible",
                                       !.orders = <<LiquidateCall(h),
                                                    SetHoldingsCall(bil, Scale)>>],
                holdings |-> SetHoldings(Liquidate(h), bil, Scale)]
          ELSE
          LET scores == [s \in Range(eligible) |-> Momentum(s, closes)]
              winner == ArgMax(eligible, scores)
              vol == IF winner = bil THEN NaN ELSE RealizedVol(winner, closes)
              weight == TargetWeight(winner, vol)
              cash_weight == CashWeight(weight)
          IN [frame |-> [path |-> "ranked", eligible |-> eligible,
                         scores |-> scores, winner |-> winner, vol |-> vol,
                         weight |-> weight, cash_weight |-> cash_weight,
                         orders |-> <<LiquidateCall(h),
                                      SetHoldingsCall(winner, weight),
                                      SetHoldingsCall(bil, cash_weight)>>],
                holdings |-> SetHoldings(SetHoldings(Liquidate(h), winner, weight),
                                         bil, cash_weight)]
----------------------------------------------------------------------------
(* Standalone script. *)
calculate_momentum(series) ==
    LET avail == SelectSeq(MOMENTUM_LOOKBACKS, LAMBDA lb : Len(series) > lb)
    IN IF avail = <<>> THEN NegInf ELSE Num(MeanReturn(series, avail))

get_realized_vol(series) ==
    IF Len(series) < VOL_LOOKBACK + 1 THEN NaN
    ELSE AnnualizedStd(tail(LogReturns(series), VOL_LOOKBACK))

(* (px.iloc[-1] / px.iloc[-127]) - 1 if len(px) > 127 else -np.inf *)
SixMonthReturn(px) ==
    IF Len(px) > 127 THEN Ratio(iloc(px, 1) - iloc(px, 127), iloc(px, 127))
    ELSE NegInf

(* len(px) < max(MOMENTUM_LOOKBACKS + [SMA_PERIOD, VOL_LOOKBACK]): continue *)
MinHistory == SeqMax(MOMENTUM_LOOKBACKS \o <<SMA_PERIOD, VOL_LOOKBACK>>)

(* The screening loop of run_strategy, in ALL_SYMBOLS order. *)
Screen(data) ==
    LET bil_6m_ret == SixMonthReturn(dropna(data[CASH_PROXY]))
        keep(symbol) ==
            LET px == dropna(data[symbol])
            IN IF Len(px) < MinHistory THEN FALSE
               ELSE LET sma == Ratio(Sum(tail(px, SMA_PERIOD)), SMA_PERIOD)
                        passes_sma == Gt(Ratio(iloc(px, 1), 1), sma)
                                      \/ symbol = CASH_PROXY
                        beats_cash == Gt(SixMonthReturn(px), bil_6m_ret)
                                      \/ symbol = CASH_PROXY
                    IN passes_sma /\ beats_cash
    IN SelectSeq(ALL_SYMBOLS, keep)

(* min(MAX_WEIGHT, TARGET_VOL / vol) if vol > 0 else 0 *)
SizeWeight(winner, vol) ==
    IF winner = CASH_PROXY THEN Scale
    ELSE IF Gt(vol, Num(0)) THEN Min(MAX_WEIGHT, (TARGET_VOL * Scale) \div vol.n)
    ELSE 0

IdleScript ==
    [path |-> "idle", eligible |-> <<>>, scores |-> <<>>, winner |-> "",
     vol |-> NaN, weight |-> 0, cash_weight |-> 0, printed |-> <<>>,
     returned |-> <<>>]

(* One run of run_strategy: its locals, the allocation lines it prints and *)
(* the dict it returns (<<>> when it returns None).                        *)
run_strategy(data) ==
    LET eligible == Screen(data)
    IN IF eligible = <<>>
       THEN [IdleScript EXCEPT !.path = "no_eligible",
                               !.returned = <<<<CASH_PROXY, Scale>>>>]
       ELSE
       LET scores == [s \in Range(eligible) |-> calculate_momentum(dropna(data[s]))]
           winner == ArgMax(eligible, scores)
           vol == IF winner = CASH_PROXY THEN NaN
                  ELSE get_realized_vol(dropna(data[winner]))
           weight == SizeWeight(winner, vol)
           cash_weight == CashWeight(weight)
       IN [path |-> "ranked", eligible |-> eligible, scores |-> scores,
           winner |-> winner, vol |-> vol, weight |-> weight,
           cash_weight |-> cash_weight,
           printed |-> <<<<winner, weight>>>>
                       \o (IF cash_weight > 0 THEN <<<<CASH_PROXY, cash_weight>>>>
                           ELSE <<>>),
           returned |-> <<>>]

----------------------------------------------------------------------------
(* Price panels the data provider can deliver. *)
Price(shape, i) ==
    CASE shape = "rise" -> BasePrice + i \div 6
      [] shape = "slow" -> BasePrice + i \div 10
      [] shape = "flat" -> BasePrice
      [] shape = "saw" -> BasePrice + i \div 6 + 2 * (i % 2)
      [] shape = "fall" -> BasePrice + (Rows - i) \div 6
      [] shape = "cash_up" -> BasePrice + i \div 4
      [] shape = "gappy" -> IF i % 90 = 45 THEN 0 ELSE BasePrice + i \div 6

(* A column with n trailing observations; the rows before them are missing. *)
Column(shape, n) ==
    [i \in 1..Rows |-> IF i <= Rows - n THEN 0 ELSE Price(shape, i)]

Columns(s) ==
    CASE s = "VT" ->
           {Column("rise", n) :
                n \in {0, ShortLen, MidLen, VOL_LOOKBACK, VOL_LOOKBACK + 1, Rows}}
           \cup {Column("flat", Rows), Column("saw", Rows), Column("gappy", Rows)}
      [] s = "BIL" ->
           {Column("flat", n) : n \in {0, ShortLen, Rows}}
           \cup {Column("cash_up", Rows)}
      [] s = "VGSH" ->
           {Column("slow", n) : n \in {0, ShortLen, VOL_LOOKBACK, Rows}}
           \cup {Column("fall", Rows)}

Panels ==
    {[s \in Range(assets) |-> CASE s = "VT" -> a [] s = "BIL" -> b [] s = "VGSH" -> c] :
        a \in Columns("VT"), b \in Columns("BIL"), c \in Columns("VGSH")}

----------------------------------------------------------------------------
Init ==
    /\ variant \in {"platform", "standalone"}
    /\ market \in Panels
    /\ IsWarmingUp = (variant = "platform")
    /\ holdings = [s \in Range(assets) |-> 0]
    /\ frame = Idle
    /\ script = IdleScript

(* The data provider publishes a new history for one instrument. *)
MarketMove ==
    /\ \E s \in Range(assets) : \E col \in Columns(s) :
          /\ col # market[s]
          /\ market' = [market EXCEPT ![s] = col]
    /\ frame' = Idle
    /\ script' = IdleScript
    /\ UNCHANGED <<variant, IsWarmingUp, holdings>>

(* The warm-up period set by SetWarmup ends. *)
EndWarmup ==
    /\ variant = "platform"
    /\ IsWarmingUp
    /\ IsWarmingUp' = FALSE
    /\ frame' = Idle
    /\ UNCHANGED <<variant, market, holdings, script>>

(* The month-end schedule fires Rebalance. *)
Rebalance ==
    /\ variant = "platform"
    /\ LET r == RebalanceRun(IsWarmingUp, market, holdings)
       IN /\ frame' = r.frame
          /\ holdings' = r.holdings
    /\ UNCHANGED <<variant, market, IsWarmingUp, script>>

(* The script is run. *)
RunStrategy ==
    /\ variant = "standalone"
    /\ script' = run_strategy(market)
    /\ UNCHANGED <<variant, market, IsWarmingUp, holdings, frame>>

Next == MarketMove \/ EndWarmup \/ Rebalance \/ RunStrategy

Spec == Init /\ [][Next]_vars
----------------------------------------------------------------------------
(* Vocabulary of the properties. *)
ZeroHoldings == [s \in Range(assets) |-> 0]

(* The valid prices Rebalance sees for s (<<>> when s has no column). *)
Seen(s) ==
    LET closes == history(market)
    IN IF s \in DOMAIN closes THEN dropna(closes[s]) ELSE <<>>

(* The valid prices run_strategy sees for s. *)
Valid(s) == dropna(market[s])

Placed == frame.path \in {"no_eligible", "ranked"}

VolStep == 150
MaxVolSteps == 24

(* Realized volatilities the sizing step is tried on: nan, 0, the smallest *)
(* positive value and a grid around target_vol.                            *)
VolGrid == {NaN, Num(1)} \cup {Num(v * VolStep) : v \in 0..MaxVolSteps}

AllShort ==
    \A s \in Range(assets) : Valid(s) # <<>> /\ Len(Valid(s)) <= ShortLen

----------------------------------------------------------------------------
(* C1 (as claimed): whenever the winner is the cash proxy, the rebalance   *)
(* ends with the cash proxy at target weight 1.0 (platform, after the last *)
(* SetHoldings) and the script reports the cash proxy at weight 1.0.       *)
Claim_C1 ==
    /\ (frame.path = "ranked" /\ frame.winner = bil) => holdings[bil] = Scale
    /\ (script.path = "ranked" /\ script.winner = CASH_PROXY)
          => \E i \in 1..Len(script.printed) :
                script.printed[i] = <<CASH_PROXY, Scale>>

(* C2: on every ranked outcome the winner's weight lies in [0, maxWeight]  *)
(* and weight + cash weight is 1.0, in both variants, whatever the         *)
(* realized volatility (positive, zero or undefined) and whoever wins.     *)
Thm_C2 ==
    /\ frame.path = "ranked" =>
          /\ 0 <= frame.weight /\ frame.weight <= max_weight
          /\ frame.weight + frame.cash_weight = Scale
    /\ script.path = "ranked" =>
          /\ 0 <= script.weight /\ script.weight <= MAX_WEIGHT
          /\ script.weight + script.cash_weight = Scale
    /\ \A w \in Range(assets) : \A vol \in VolGrid :
          /\ 0 <= TargetWeight(w, vol) /\ TargetWeight(w, vol) <= max_weight
          /\ TargetWeight(w, vol) + CashWeight(TargetWeight(w, vol)) = Scale
          /\ 0 <= SizeWeight(w, vol) /\ SizeWeight(w, vol) <= MAX_WEIGHT
          /\ SizeWeight(w, vol) + CashWeight(SizeWeight(w, vol)) = Scale

Wit_C2 ==
    /\ frame.path = "ranked"
    /\ frame.winner # bil
    /\ frame.vol.k = "num"
    /\ 0 < frame.weight /\ frame.weight < max_weight

(* C3 (as claimed): every scored instrument with fewer than                *)
(* max(lookbacks) + 1 = 253 valid prices has momentum -inf, in the         *)
(* platform's Momentum and in the script's calculate_momentum.             *)
Claim_C3 ==
    /\ frame.path = "ranked" =>
          \A s \in DOMAIN frame.scores :
             Len(Seen(s)) < SeqMax(momentum_lookbacks) + 1
                => frame.scores[s] = NegInf
    /\ script.path = "ranked" =>
          \A s \in DOMAIN script.scores :
             Len(Valid(s)) < SeqMax(MOMENTUM_LOOKBACKS) + 1
                => script.scores[s] = NegInf

(* C4 (as claimed): the cash proxy is in the eligible set whenever it is   *)
(* in the panel, whatever its prices, in both variants.                    *)
Claim_C4 ==
    /\ (Placed /\ Seen(bil) # <<>>) => bil \in Range(frame.eligible)
    /\ (script.path # "idle" /\ Valid(CASH_PROXY) # <<>>)
          => CASH_PROXY \in Range(script.eligible)

(* C5 (as claimed): when every instrument, the cash proxy included, has    *)
(* only a short history (ShortLen observations at most), the eligible set  *)
(* is empty and the allocation is {CASH: 1.0}.                             *)
Claim_C5 ==
    AllShort =>
       /\ Placed =>
             /\ frame.eligible = <<>>
             /\ holdings = [ZeroHoldings EXCEPT ![bil] = Scale]
       /\ script.path # "idle" =>
             /\ script.eligible = <<>>
             /\ script.returned = <<<<CASH_PROXY, Scale>>>>

(* C6: in the platform variant a non-cash instrument is in the eligible    *)
(* set only if it has at least sma_period valid closes with the latest     *)
(* strictly above their average, and a 126-day return strictly above the   *)
(* cash proxy's (which is -inf when the proxy has under 127 valid closes). *)
Thm_C6 ==
    frame.path = "ranked" =>
       \A s \in Range(frame.eligible) \ {bil} :
          LET px == Seen(s)
              cash == Seen(bil)
          IN /\ Len(px) >= sma_period
             /\ px[Len(px)] * sma_period
                   > SumRange(px, Len(px) - sma_period + 1, Len(px))
             /\ Len(px) >= 127
             /\ \/ Len(cash) < 127
                \/ px[Len(px)] * cash[Len(cash) - 126]
                      > cash[Len(cash)] * px[Len(px) - 126]

(* VGSH is eligible while VT, flat with latest close equal to its SMA, is not. *)
Wit_C6 ==
    /\ frame.path = "ranked"
    /\ "VGSH" \in Range(frame.eligible)
    /\ "VT" \notin Range(frame.eligible)
    /\ Len(Seen("VT")) >= sma_period
    /\ iloc(Seen("VT"), 1) * sma_period = Sum(tail(Seen("VT"), sma_period))

(* C7 (as claimed): an instrument whose momentum is -inf is never the      *)
(* winner, whatever the eligible set.                                      *)
Claim_C7 ==
    /\ frame.path = "ranked" => frame.scores[frame.winner] # NegInf
    /\ script.path = "ranked" => script.scores[script.winner] # NegInf

(* C7 (amended): an instrument whose momentum is -inf is never the winner  *)
(* when some eligible instrument has a finite momentum; when every         *)
(* eligible instrument scores -inf the winner is the first eligible one in *)
(* universe order.                                                         *)
Thm_C7 ==
    /\ frame.path = "ranked" =>
          IF \E s \in DOMAIN frame.scores : frame.scores[s] # NegInf
          THEN frame.scores[frame.winner] # NegInf
          ELSE frame.winner = frame.eligible[1]
    /\ script.path = "ranked" =>
          IF \E s \in DOMAIN script.scores : script.scores[s] # NegInf
          THEN script.scores[script.winner] # NegInf
          ELSE script.winner = script.eligible[1]

(* A -inf scorer stands first in the eligible list and loses to a finite one. *)
Wit_C7 ==
    /\ frame.path = "ranked"
    /\ frame.scores[frame.eligible[1]] = NegInf
    /\ frame.scores[frame.winner] # NegInf

(* C8: when the winner is a non-cash instrument whose realized volatility  *)
(* is undefined (under VOL_LOOKBACK + 1 = 253 valid prices) or exactly 0,  *)
(* the winner's weight is 0 and the cash proxy's weight is 1.0.            *)
Thm_C8 ==
    /\ (frame.path = "ranked" /\ frame.winner # bil) =>
          /\ Len(Seen(frame.winner)) < vol_lookback + 1 => frame.vol = NaN
          /\ (frame.vol = NaN \/ frame.vol = Num(0)) =>
                /\ frame.weight = 0 /\ frame.cash_weight = Scale
                /\ holdings[frame.winner] = 0 /\ holdings[bil] = Scale
    /\ (script.path = "ranked" /\ script.winner # CASH_PROXY) =>
          /\ Len(Valid(script.winner)) < VOL_LOOKBACK + 1 => script.vol = NaN
          /\ (script.vol = NaN \/ script.vol = Num(0)) =>
                /\ script.weight = 0 /\ script.cash_weight = Scale
                /\ script.printed = <<<<script.winner, 0>>, <<CASH_PROXY, Scale>>>>
    /\ \A w \in Range(assets) \ {bil} : \A vol \in {NaN, Num(0)} :
          /\ TargetWeight(w, vol) = 0 /\ CashWeight(TargetWeight(w, vol)) = Scale
          /\ SizeWeight(w, vol) = 0 /\ CashWeight(SizeWeight(w, vol)) = Scale

Wit_C8 ==
    /\ frame.path = "ranked"
    /\ frame.winner # bil
    /\ frame.vol = NaN
    /\ holdings[bil] = Scale

(* C9: every Rebalance that places orders issues Liquidate first and only  *)
(* SetHoldings after it; the holdings it leaves are those the same panel   *)
(* gives from empty holdings, and every instrument other than the winner   *)
(* and the cash proxy has target weight 0.                                 *)
Thm_C9 ==
    Placed =>
       /\ frame.orders[1].op = "Liquidate"
       /\ \A i \in 2..Len(frame.orders) : frame.orders[i].op = "SetHoldings"
       /\ holdings = RebalanceRun(FALSE, market, ZeroHoldings).holdings
       /\ \A s \in Range(assets) \ {frame.winner, bil} : holdings[s] = 0

(* The Liquidate of this call closed a position in an instrument that is   *)
(* neither this call's winner nor the cash proxy.                          *)
Wit_C9 ==
    /\ frame.path = "ranked"
    /\ \E s \in frame.orders[1].closed :
          s \notin {frame.winner, bil} /\ holdings[s] = 0
    /\ holdings[frame.winner] > 0

(* C10: a Rebalance invoked while warming up, or whose fetched history is  *)
(* empty, issues no order call and leaves the holdings unchanged.          *)
Thm_C10 ==
    [][(frame'.path # "idle" /\ (IsWarmingUp \/ DOMAIN history(market) = {}))
          => (frame'.orders = <<>> /\ holdings' = holdings)]_vars

(* A Rebalance was skipped on an empty history while a position is held. *)
Wit_C10 ==
    /\ frame.path = "empty_history"
    /\ \E s \in Range(assets) : holdings[s] # 0

====
